---- MODULE Spec2Model ----
(***************************************************************************)
(* Model of deepinpy/forwards/mcmri/dataset.py: MultiChannelMRIDataset     *)
(* (the Sample Provider), its readers load_data / load_data_ksp (the       *)
(* Storage Reader) and _sim_data (the Forward Operator).                   *)
(*                                                                         *)
(* An array is a record [shape, dtype, val]: its numpy shape, its numpy    *)
(* dtype and a term naming its contents (which stored dataset it was read  *)
(* from and which operations were applied to it).  Numerical kernels       *)
(* (fft2uc, ifft2uc, fftmod, the NUFFT operator) are term constructors, so *)
(* two arrays are equal only if they were computed the same way from the   *)
(* same stored data.  Python assertions are enabled (the default).  The    *)
(* index passed to get is a non-negative integer.                          *)
(***************************************************************************)
EXTENDS Integers, Sequences, FiniteSets, TLC

VARIABLES store, pc, self, last, first

vars == <<store, pc, self, last, first>>

(***************************************************************************)
(* Bounds of the model.                                                    *)
(***************************************************************************)
\* largest number of samples in a store
MaxN == 2
\* number of distinct outcomes of one np.random.randn draw
NoiseDraws == 2

(***************************************************************************)
(* Terms.                                                                  *)
(***************************************************************************)
T(op, tag, n, args) == [op |-> op, tag |-> tag, n |-> n, args |-> args]

\* the contents of sample idx of dataset name (the whole dataset for mask_traj_<idx>)
Stored(name, idx) == T("stored", name, idx, <<>>)
NoneVal == T("none", "", 0, <<>>)

\* numpy's None
NoneArr == [shape |-> <<>>, dtype |-> "none", val |-> NoneVal]
IsNone(a) == a.dtype = "none"

Arr(shape, dtype, val) == [shape |-> shape, dtype |-> dtype, val |-> val]

(***************************************************************************)
(* numpy: dtypes, shapes.                                                  *)
(***************************************************************************)
IsComplex(dt) == dt \in {"c64", "c128"}
IsDouble(dt) == dt \in {"f64", "c128"}

\* numpy.promote_types on the four dtypes used
Promote(d1, d2) ==
    IF IsComplex(d1) \/ IsComplex(d2)
    THEN (IF IsDouble(d1) \/ IsDouble(d2) THEN "c128" ELSE "c64")
    ELSE (IF IsDouble(d1) \/ IsDouble(d2) THEN "f64" ELSE "f32")

\* ndarray.astype / np.array(x, dtype=dt): a change of dtype changes the values
\* (complex to real drops the imaginary part, double to single rounds)
AsType(a, dt) ==
    IF a.dtype = dt THEN a
    ELSE Arr(a.shape, dt, T("astype", dt, 0, <<a.val>>))

Rank(a) == Len(a.shape)

\* x[None, ...]
AddLead(a) == IF IsNone(a) THEN a ELSE Arr(<<1>> \o a.shape, a.dtype, a.val)

\* x[:, None, :, :]  (needs at least three axes)
AddAxis1(a) == Arr(<<a.shape[1], 1>> \o Tail(a.shape), a.dtype, a.val)

\* x.squeeze(0) is defined only when axis 0 has size 1
CanSqueeze0(a) == Rank(a) >= 1 /\ a.shape[1] = 1
Squeeze0(a) == Arr(Tail(a.shape), a.dtype, a.val)

Max(a, b) == IF a >= b THEN a ELSE b

\* shape s left-padded with ones to length n
PadTo(s, n) == [i \in 1..n |-> IF i <= n - Len(s) THEN 1 ELSE s[i - (n - Len(s))]]

\* numpy broadcasting of two shapes
CanBroadcast(s1, s2) ==
    LET n == Max(Len(s1), Len(s2))
        p1 == PadTo(s1, n)
        p2 == PadTo(s2, n)
    IN \A i \in 1..n : p1[i] = p2[i] \/ p1[i] = 1 \/ p2[i] = 1

BroadcastShape(s1, s2) ==
    LET n == Max(Len(s1), Len(s2))
        p1 == PadTo(s1, n)
        p2 == PadTo(s2, n)
    IN [i \in 1..n |-> Max(p1[i], p2[i])]

\* a * b
Mul(a, b) == Arr(BroadcastShape(a.shape, b.shape), Promote(a.dtype, b.dtype),
                 T("mul", "", 0, <<a.val, b.val>>))
\* a + b
Add(a, b) == Arr(BroadcastShape(a.shape, b.shape), Promote(a.dtype, b.dtype),
                 T("add", "", 0, <<a.val, b.val>>))
\* 1 / np.sqrt(2) * stdev * a  (a scalar factor keeps the array's dtype)
ScaleNoise(stdev, a) == Arr(a.shape, a.dtype, T("scale_invsqrt2", "", stdev, <<a.val>>))
\* np.conj(a)
Conj(a) == Arr(a.shape, a.dtype, T("conj", "", 0, <<a.val>>))
\* np.sum(a, axis=1)
SumAxis1(a) == Arr(<<a.shape[1]>> \o Tail(Tail(a.shape)), a.dtype, T("sum_axis1", "", 0, <<a.val>>))
\* np.ones(shape)
Ones(shape) == Arr(shape, "f64", T("ones", "", 0, <<>>))
\* np.random.randn(*shape) + 1j * np.random.randn(*shape), outcome d of the generator
Randn(shape, d) == Arr(shape, "c128", T("randn", "", d, <<>>))

(***************************************************************************)
(* deepinpy.utils.utils (fftmod, fft2uc, ifft2uc) and mrinufft's operator. *)
(* Each keeps the shape of its argument except the NUFFT, whose output has *)
(* one value per coil and trajectory point.                                *)
(***************************************************************************)
\* frequency-shift modulation
fftmod(a) == Arr(a.shape, a.dtype, T("fftmod", "", 0, <<a.val>>))
\* unitary centered 2D FFT over the last two axes
fft2uc(a) == Arr(a.shape, a.dtype, T("fft2uc", "", 0, <<a.val>>))
\* unitary centered 2D inverse FFT over the last two axes
ifft2uc(a) == Arr(a.shape, a.dtype, T("ifft2uc", "", 0, <<a.val>>))

\* get_operator("gpunufft")(masks[0], maps.shape[-2:], n_coils=maps.shape[1]).op(x):
\* the library returns [n_coils, K] or [1, n_coils, K] (squeezed or not)
CanNufft(masks, maps) == Rank(masks) >= 2 /\ Rank(maps) >= 2
NufftOp(masks, maps, x, squeezed) ==
    Arr((IF squeezed THEN <<>> ELSE <<1>>) \o <<maps.shape[2], masks.shape[2]>>, "c64",
        T("nufft_op", "", 0, <<x.val, masks.val>>))

(***************************************************************************)
(* The two stores.  A store is [N, layout, hasKsp, maskMode, noise]:       *)
(*   N        number of samples (leading dimension of every dataset)       *)
(*   layout   the per-sample shapes and stored dtypes of the datasets      *)
(*   hasKsp   whether Store A holds ksp                                    *)
(*   maskMode which mask datasets Store B holds: the shared masks, the     *)
(*            per-index mask_traj_<idx>, both, or none                     *)
(*   noise    "absent", or the stored dtype of Store B's noise             *)
(***************************************************************************)
Layouts == {"std", "batched", "stack", "ragged"}
MaskModes == {"masks", "both", "traj", "none"}
NoiseKinds == {"absent", "c64", "f64"}

\* shape of one sample of a dataset (the dataset's shape without its leading axis);
\* for mask_traj the shape of the whole per-index dataset
PerSample(layout, name) ==
    CASE layout = "std" ->
           (CASE name \in {"imgs", "masks", "loss_masks"} -> <<2, 3>>
              [] name \in {"maps", "ksp", "noise"} -> <<2, 2, 3>>
              [] name = "mask_traj" -> <<4, 2>>)
      [] layout = "batched" ->
           (CASE name \in {"imgs", "masks", "loss_masks", "mask_traj"} -> <<1, 2, 3>>
              [] name \in {"maps", "ksp", "noise"} -> <<1, 2, 2, 3>>)
      [] layout = "stack" ->
           (CASE name \in {"imgs", "masks", "loss_masks", "mask_traj"} -> <<2, 2, 3>>
              [] name \in {"maps", "ksp", "noise"} -> <<2, 2, 2, 3>>)
      [] layout = "ragged" ->
           (CASE name \in {"imgs", "masks", "loss_masks"} -> <<1, 2, 3>>
              [] name \in {"maps", "ksp", "noise"} -> <<2, 2, 3>>
              [] name = "mask_traj" -> <<2, 3>>)

\* dtype a dataset is stored with
StoredDtype(st, name) ==
    CASE name = "noise" -> st.noise
      [] name \in {"imgs", "maps", "ksp"} ->
           (IF st.layout \in {"batched", "ragged"} THEN "c128" ELSE "c64")
      [] OTHER -> (IF st.layout \in {"batched", "stack"} THEN "f64" ELSE "f32")

\* shape of a whole stored dataset
DatasetShape(st, name) ==
    IF name = "mask_traj" THEN PerSample(st.layout, name)
    ELSE <<st.N>> \o PerSample(st.layout, name)

\* 'name' in F.keys()
HasDataset(st, name, idx) ==
    CASE name = "ksp" -> st.hasKsp
      [] name = "masks" -> st.maskMode \in {"masks", "both"}
      [] name = "mask_traj" -> st.maskMode \in {"traj", "both"} /\ idx \in 0..(st.N - 1)
      [] name = "noise" -> st.noise # "absent"
      [] OTHER -> TRUE

\* faulty variant of ReadSample: imgs is read at the index the previous get returned
ReadSampleStale(st, name, idx, dt) ==
    AsType(Arr(PerSample(st.layout, name), StoredDtype(st, name),
               Stored(name, IF name = "imgs" /\ last.status = "ok" THEN last.idx ELSE idx)), dt)

\* np.array(F[name][idx, ...], dtype=dt)
ReadSample(st, name, idx, dt) ==
    AsType(Arr(PerSample(st.layout, name), StoredDtype(st, name), Stored(name, idx)), dt)

\* np.array(F['mask_traj_<idx>'], dtype=dt)
ReadTraj(st, idx, dt) ==
    AsType(Arr(PerSample(st.layout, "mask_traj"), StoredDtype(st, "mask_traj"),
               Stored("mask_traj", idx)), dt)

\* a single-sample store and a MaxN-sample store of every layout
Stores ==
    [N : {1, MaxN}, layout : Layouts, hasKsp : BOOLEAN, maskMode : MaskModes,
     noise : NoiseKinds]

(***************************************************************************)
(* Storage Reader.  A reader returns [err, imgs, maps, masks, ksp, noise,  *)
(* loss_masks, maskSource]; err is "" when the read succeeds.              *)
(***************************************************************************)
Loaded(err, imgs, maps, masks, ksp, noise, loss_masks, src) ==
    [err |-> err, imgs |-> imgs, maps |-> maps, masks |-> masks, ksp |-> ksp,
     noise |-> noise, loss_masks |-> loss_masks, maskSource |-> src]

LoadFailed(err) == Loaded(err, NoneArr, NoneArr, NoneArr, NoneArr, NoneArr, NoneArr, "none")

\* the "special case for batch_size=1" of both readers
Batch1(ld) ==
    IF Rank(ld.masks) = 2
    THEN Loaded(ld.err, AddLead(ld.imgs), AddLead(ld.maps), AddLead(ld.masks),
                AddLead(ld.ksp), AddLead(ld.noise), AddLead(ld.loss_masks), ld.maskSource)
    ELSE ld

load_data(st, idx) ==
    IF idx \notin 0..(st.N - 1) THEN LoadFailed("IndexError")
    ELSE IF ~HasDataset(st, "masks", idx) THEN LoadFailed("KeyError")
    ELSE Batch1(Loaded("",
            ReadSample(st, "imgs", idx, "c64"),
            ReadSample(st, "maps", idx, "c64"),
            ReadSample(st, "masks", idx, "f32"),
            NoneArr,
            IF HasDataset(st, "noise", idx) THEN ReadSample(st, "noise", idx, "c64")
            ELSE NoneArr,
            ReadSample(st, "loss_masks", idx, "f32"),
            "masks"))

\* faulty variant of MaskDataset: no fallback to mask_traj_<idx>
MaskDatasetShared(st, idx) == "masks"

\* lines 196-199: the dataset load_data_ksp reads the mask from
MaskDataset(st, idx) == IF HasDataset(st, "masks", idx) THEN "masks" ELSE "mask_traj"

load_data_ksp(st, idx) ==
    IF idx \notin 0..(st.N - 1) THEN LoadFailed("IndexError")
    ELSE IF ~HasDataset(st, "ksp", idx) THEN LoadFailed("KeyError")
    ELSE IF ~HasDataset(st, MaskDataset(st, idx), idx) THEN LoadFailed("KeyError")
    ELSE Batch1(Loaded("",
            ReadSample(st, "imgs", idx, "c64"),
            ReadSample(st, "maps", idx, "c64"),
            IF MaskDataset(st, idx) = "masks" THEN ReadSample(st, "masks", idx, "f32")
            ELSE ReadTraj(st, idx, "f32"),
            ReadSample(st, "ksp", idx, "c64"),
            IF HasDataset(st, "noise", idx) THEN ReadSample(st, "noise", idx, "f32")
            ELSE NoneArr,
            ReadSample(st, "loss_masks", idx, "f32"),
            MaskDataset(st, idx)))

(***************************************************************************)
(* Forward Operator: MultiChannelMRIDataset._sim_data.                     *)
(* Returns [err, pre, out, drew]: pre is the simulated measurement before  *)
(* the output transform, out the value returned, drew whether the random   *)
(* generator was used.                                                     *)
(***************************************************************************)
None == -1

Sim(err, pre, out, drew) == [err |-> err, pre |-> pre, out |-> out, drew |-> drew]

\* the adjoint output: np.sum(np.conj(maps) * ifft2uc(out), axis=1)
CanAdjoint(maps, out) == CanBroadcast(maps.shape, out.shape) /\ Max(Rank(maps), Rank(out)) >= 2
Adjoint(maps, out) == SumAxis1(Mul(Conj(maps), ifft2uc(out)))

\* faulty variant of OutputTransform: the modulation whatever the flags are
OutputTransformModOnly(cfg, maps, out) == fftmod(out)

\* lines 162-166: the output transform
OutputTransform(cfg, maps, out) ==
    IF ~cfg.adjoint_data /\ ~cfg.noncart THEN fftmod(out)
    ELSE IF cfg.adjoint_data /\ ~cfg.noncart THEN Adjoint(maps, out)
    ELSE out

\* lines 141-149: the non-Cartesian branch
SimNoncart(cfg, imgs, maps, masks, noise, ksp, sq) ==
    IF IsNone(ksp) THEN Sim("TypeError", NoneArr, NoneArr, FALSE)
    ELSE IF ~CanNufft(masks, maps) THEN Sim("IndexError", NoneArr, NoneArr, FALSE)
    ELSE LET op == NufftOp(masks, maps, ifft2uc(ksp), sq)
             out == IF Rank(op) = 2 THEN AddLead(op) ELSE op
         IN Sim("", out, OutputTransform(cfg, maps, out), IsNone(noise))

\* line 156: masks[:,None,:,:] * (fft2uc(imgs[:,None,:,:] * maps) + 1/sqrt(2) * stdev * noise)
CanInverseCrime(imgs, maps, masks, noise) ==
    /\ Rank(imgs) >= 3 /\ Rank(masks) >= 3
    /\ CanBroadcast(AddAxis1(imgs).shape, maps.shape)
    /\ CanBroadcast(BroadcastShape(AddAxis1(imgs).shape, maps.shape), noise.shape)
    /\ CanBroadcast(AddAxis1(masks).shape,
                    BroadcastShape(BroadcastShape(AddAxis1(imgs).shape, maps.shape), noise.shape))
InverseCrime(cfg, imgs, maps, masks, noise) ==
    Mul(AddAxis1(masks), Add(fft2uc(Mul(AddAxis1(imgs), maps)), ScaleNoise(cfg.stdev, noise)))

\* line 161: masks[None,...] * (ksp + 1/sqrt(2) * stdev * noise)
CanFromKsp(masks, noise, ksp) ==
    /\ CanBroadcast(ksp.shape, noise.shape)
    /\ CanBroadcast(AddLead(masks).shape, BroadcastShape(ksp.shape, noise.shape))
FromKsp(cfg, masks, noise, ksp) ==
    Mul(AddLead(masks), Add(ksp, ScaleNoise(cfg.stdev, noise)))

\* lines 152-153 (and 148-149): precomputed noise, or a fresh draw when there is none
NoiseOrRandom(noise, shape, d) == IF IsNone(noise) THEN Randn(shape, d) ELSE noise

\* lines 150-161: the Cartesian branch; d is the outcome of the random generator
SimCart(cfg, imgs, maps, masks, noise, ksp, d) ==
    LET noise2 == NoiseOrRandom(noise, maps.shape, d)
        ok == IF cfg.inverse_crime /\ IsNone(ksp)
              THEN CanInverseCrime(imgs, maps, masks, noise2)
              ELSE CanFromKsp(masks, noise2, ksp)
        pre == IF cfg.inverse_crime /\ IsNone(ksp)
               THEN InverseCrime(cfg, imgs, maps, masks, noise2)
               ELSE FromKsp(cfg, masks, noise2, ksp)
    IN IF ~ok THEN Sim("ValueError", NoneArr, NoneArr, IsNone(noise))
       ELSE IF cfg.adjoint_data /\ ~CanAdjoint(maps, pre)
       THEN Sim("ValueError", NoneArr, NoneArr, IsNone(noise))
       ELSE Sim("", pre, OutputTransform(cfg, maps, pre), IsNone(noise))

_sim_data(cfg, imgs, maps, masks, noise, ksp, d, sq) ==
    IF cfg.noncart THEN SimNoncart(cfg, imgs, maps, masks, noise, ksp, sq)
    ELSE SimCart(cfg, imgs, maps, masks, noise, ksp, d)

(***************************************************************************)
(* Sample Provider: MultiChannelMRIDataset.                                *)
(***************************************************************************)
Fields == {"imgs", "maps", "masks", "loss_masks", "out"}
NoData == [k \in Fields |-> NoneArr]
Data(imgs, maps, masks, loss_masks, out) ==
    [k \in Fields |-> CASE k = "imgs" -> imgs [] k = "maps" -> maps [] k = "masks" -> masks
                        [] k = "loss_masks" -> loss_masks [] k = "out" -> out]

\* what _load_data did: [err, reader, maskSource, simCalled, simMasks, simMaps, pre, drew, data]
Trace(err, ld, reader, simCalled, simMasks, simMaps, sim, data) ==
    [err |-> err, reader |-> reader, maskSource |-> ld.maskSource, readKsp |-> ~IsNone(ld.ksp),
     rawMasks |-> ld.masks, simCalled |-> simCalled, simMasks |-> simMasks,
     simMaps |-> simMaps, pre |-> sim.pre, drew |-> sim.drew, data |-> data]

NoSim == Sim("", NoneArr, NoneArr, FALSE)

\* faulty variant of Reader: the k-space reader whatever inverse_crime is
ReaderAlwaysKsp(cfg) == "load_data_ksp"

\* the reader _load_data selects (lines 115-119)
Reader(cfg) == IF cfg.inverse_crime THEN "load_data" ELSE "load_data_ksp"

\* faulty variant of ScalingAllowed: the assertion is missing
ScalingAllowedAlways(cfg) == TRUE

\* lines 120-122: the assertion that gates data scaling
ScalingAllowed(cfg) == ~cfg.scale_data

\* line 123: np.percentile(abs(imgs), 99, axis=(-1, -2)), one value per leading index
Percentile99(imgs) ==
    Arr(SubSeq(imgs.shape, 1, Len(imgs.shape) - 2),
        IF IsDouble(imgs.dtype) THEN "f64" ELSE "f32",
        T("percentile99", "", 0, <<imgs.val>>))

\* lines 124-125: x / sc
CanDiv(x, sc) == CanBroadcast(x.shape, sc.shape)
Div(x, sc) == Arr(BroadcastShape(x.shape, sc.shape), Promote(x.dtype, sc.dtype),
                  T("div", "", 0, <<x.val, sc.val>>))

\* lines 120-125: the scaling of imgs and ksp behind the assertion; ksp is an unbound
\* local after the image-domain reader
ScaleData(cfg, reader, imgs, ksp) ==
    LET sc == Percentile99(imgs)
    IN IF ~cfg.scale_data THEN [err |-> "", imgs |-> imgs, ksp |-> ksp]
       ELSE IF ~CanDiv(imgs, sc) THEN [err |-> "ValueError", imgs |-> NoneArr, ksp |-> NoneArr]
       ELSE IF reader = "load_data"
       THEN [err |-> "UnboundLocalError", imgs |-> NoneArr, ksp |-> NoneArr]
       ELSE IF ~CanDiv(ksp, sc) THEN [err |-> "ValueError", imgs |-> NoneArr, ksp |-> NoneArr]
       ELSE [err |-> "", imgs |-> Div(imgs, sc), ksp |-> Div(ksp, sc)]

\* faulty variant of SimAllowed: the assertion is missing
SimAllowedAlways(cfg) == TRUE

\* lines 130-131: the assertion that excludes non-Cartesian inverse crime
SimAllowed(cfg) == ~(cfg.inverse_crime /\ cfg.noncart)

\* faulty variant of FullySampled: the stored mask is kept
FullySampledKeep(cfg, masks) == masks

\* lines 127-128
FullySampled(cfg, masks) == IF cfg.fully_sampled THEN Ones(masks.shape) ELSE masks

\* faulty variant of ModMaps: the maps are returned as stored
ModMapsNever(cfg, maps) == maps

\* lines 136-137
ModMaps(cfg, maps) == IF ~cfg.noncart THEN fftmod(maps) ELSE maps

_load_data(cfg, st, idx, d, sq) ==
    LET reader == Reader(cfg)
        ld == IF reader = "load_data" THEN load_data(st, idx) ELSE load_data_ksp(st, idx)
        sd == ScaleData(cfg, reader, ld.imgs, ld.ksp)
        masks == FullySampled(cfg, ld.masks)
        sim == _sim_data(cfg, sd.imgs, ld.maps, masks, ld.noise, sd.ksp, d, sq)
    IN IF ld.err # "" THEN Trace(ld.err, ld, reader, FALSE, NoneArr, NoneArr, NoSim, NoData)
       ELSE IF ~ScalingAllowed(cfg)
       THEN Trace("AssertionError: SEE FIXME", ld, reader, FALSE, NoneArr, NoneArr, NoSim, NoData)
       ELSE IF sd.err # ""
       THEN Trace(sd.err, ld, reader, FALSE, NoneArr, NoneArr, NoSim, NoData)
       ELSE IF ~SimAllowed(cfg)
       THEN Trace("AssertionError: FIXME: forward sim of NUFFT", ld, reader, FALSE, NoneArr,
                  NoneArr, NoSim, NoData)
       ELSE IF sim.err # ""
       THEN Trace(sim.err, ld, reader, TRUE, masks, ld.maps, sim, NoData)
       ELSE Trace("", ld, reader, TRUE, masks, ld.maps, sim,
                  Data(sd.imgs, ModMaps(cfg, ld.maps), masks, ld.loss_masks, sim.out))

\* faulty variant of SqueezeAll: only imgs is squeezed
SqueezeImgsOnly(data) == [k \in Fields |-> IF k = "imgs" THEN Squeeze0(data[k]) ELSE data[k]]

\* lines 97-102
CanSqueezeAll(data) == \A k \in Fields : CanSqueeze0(data[k])
SqueezeAll(data) == [k \in Fields |-> Squeeze0(data[k])]

\* faulty variant of Coerce: the arrays are returned as computed
CoerceNothing(data) == data

\* lines 104-110
FieldDtype(k) == IF k \in {"masks", "loss_masks"} THEN "f32" ELSE "c64"
Coerce(data) == [k \in DOMAIN data |-> AsType(data[k], FieldDtype(k))]

\* faulty variant of ResolveIdx: the passed index is used
ResolveIdxPassed(cfg, idx) == idx

\* lines 83-84
ResolveIdx(cfg, idx) == IF cfg.data_idx # None THEN cfg.data_idx ELSE idx

\* what one get did: [status, err, passed, idx, loaded, squeezed, data] and the trace of
\* _load_data; status is "ok" when (idx, data) is returned and "error" when get raises
Outcome(status, err, passed, idx, tr, squeezed, data) ==
    [status |-> status, err |-> err, passed |-> passed, idx |-> idx, reader |-> tr.reader,
     maskSource |-> tr.maskSource, readKsp |-> tr.readKsp, rawMasks |-> tr.rawMasks,
     simCalled |-> tr.simCalled, simMasks |-> tr.simMasks, simMaps |-> tr.simMaps,
     pre |-> tr.pre, drew |-> tr.drew, loaded |-> tr.data, squeezed |-> squeezed,
     data |-> data]

__getitem__(cfg, st, passed, d, sq) ==
    LET idx == ResolveIdx(cfg, passed)
        tr == _load_data(cfg, st, idx, d, sq)
        squeeze == tr.data["imgs"].shape[1] = 1
    IN IF tr.err # "" THEN Outcome("error", tr.err, passed, idx, tr, FALSE, NoData)
       ELSE IF squeeze /\ ~CanSqueezeAll(tr.data)
       THEN Outcome("error", "ValueError", passed, idx, tr, FALSE, NoData)
       ELSE Outcome("ok", "", passed, idx, tr, squeeze,
                    Coerce(IF squeeze THEN SqueezeAll(tr.data) ELSE tr.data))

\* faulty variant of NumDataSets: the data_idx override is forgotten
NumDataSetsNoOverride(data_idx, num_data_sets, max_data_sets) ==
    IF num_data_sets = None THEN max_data_sets
    ELSE (IF num_data_sets <= max_data_sets THEN num_data_sets ELSE max_data_sets)

\* lines 56-62
NumDataSets(data_idx, num_data_sets, max_data_sets) ==
    IF data_idx # None THEN 1
    ELSE IF num_data_sets = None THEN max_data_sets
    ELSE (IF num_data_sets <= max_data_sets THEN num_data_sets ELSE max_data_sets)

\* lines 69-73
_len(st) == DatasetShape(st, "imgs")[1]

\* lines 39-62; args are the constructor's arguments
__init__(st, args) ==
    [stdev |-> args.stdev, adjoint_data |-> args.adjoint_data,
     max_data_sets |-> _len(st), fully_sampled |-> args.fully_sampled,
     data_idx |-> args.data_idx, scale_data |-> args.scale_data,
     inverse_crime |-> args.inverse_crime, noncart |-> args.noncart,
     requested |-> args.num_data_sets,
     num_data_sets |-> NumDataSets(args.data_idx, args.num_data_sets, _len(st))]

\* lines 75-76
__len__(cfg) == cfg.num_data_sets

(***************************************************************************)
(* The state machine.                                                      *)
(*   store  the two stores (read-only)                                     *)
(*   pc     "new" before construction, "ready" after                       *)
(*   self   the provider's attributes                                      *)
(*   last   the outcome of the latest get                                  *)
(*   first  the index and data of the first get that returned a sample     *)
(***************************************************************************)
Indices == 0..MaxN
Stdevs == {0, 1}

\* constructor arguments: every combination of the mode flags with the default
\* num_data_sets and data_idx, and every num_data_sets and data_idx with the
\* default flags (line 39)
ModeArgs ==
    [stdev : Stdevs, num_data_sets : {None}, adjoint_data : BOOLEAN,
     scale_data : BOOLEAN, fully_sampled : BOOLEAN, data_idx : {None},
     inverse_crime : BOOLEAN, noncart : BOOLEAN]

CountArgs ==
    [stdev : {1}, num_data_sets : {None} \cup 1..(MaxN + 1), adjoint_data : {TRUE},
     scale_data : {FALSE}, fully_sampled : {FALSE}, data_idx : {None} \cup 0..(MaxN - 1),
     inverse_crime : {FALSE}, noncart : {FALSE}]

Args == ModeArgs \cup CountArgs

NoSelf ==
    [stdev |-> 0, adjoint_data |-> FALSE, max_data_sets |-> 0, fully_sampled |-> FALSE,
     data_idx |-> None, scale_data |-> FALSE, inverse_crime |-> FALSE, noncart |-> FALSE,
     requested |-> None, num_data_sets |-> 0]

NoTrace == Trace("", LoadFailed(""), "none", FALSE, NoneArr, NoneArr, NoSim, NoData)
NoOutcome == Outcome("none", "", None, None, NoTrace, FALSE, NoData)
NoFirst == [passed |-> None, idx |-> None, data |-> NoData]

\* outcomes of the random generator (consulted only when Store B has no noise)
Draws(st) == IF st.noise = "absent" THEN 1..NoiseDraws ELSE {1}
\* whether the NUFFT library squeezes its output (consulted only when non-Cartesian)
NufftForms(cfg) == IF cfg.noncart THEN BOOLEAN ELSE {FALSE}

Init ==
    /\ store \in Stores
    /\ pc = "new"
    /\ self = NoSelf
    /\ last = NoOutcome
    /\ first = NoFirst

Construct ==
    /\ pc = "new"
    /\ \E args \in Args : self' = __init__(store, args)
    /\ pc' = "ready"
    /\ UNCHANGED <<store, last, first>>

Get ==
    /\ pc = "ready"
    /\ \E i \in Indices, d \in Draws(store), sq \in NufftForms(self) :
         \E r \in {__getitem__(self, store, i, d, sq)} :
            /\ last' = r
            /\ first' = IF r.status = "ok" /\ first = NoFirst
                        THEN [passed |-> r.passed, idx |-> r.idx, data |-> r.data]
                        ELSE first
    /\ UNCHANGED <<store, pc, self>>

Next == Construct \/ Get

Spec == Init /\ [][Next]_vars

(***************************************************************************)
(* Properties.                                                             *)
(***************************************************************************)
Called == pc = "ready" /\ last.status # "none"
Returned == pc = "ready" /\ last.status = "ok"

\* a term without the dtype conversions applied to it
RECURSIVE Uncast(_)
Uncast(t) == IF t.op = "astype" THEN Uncast(t.args[1]) ELSE t

\* whether term t is computed from a term of operation op and tag
RECURSIVE Mentions(_, _, _)
Mentions(t, op, tag) ==
    \/ t.op = op /\ t.tag = tag
    \/ \E i \in 1..Len(t.args) : Mentions(t.args[i], op, tag)

Min(a, b) == IF a <= b THEN a ELSE b

\* the length the configuration asks for
ExpectedLength ==
    IF self.data_idx # None THEN 1
    ELSE IF self.requested = None THEN store.N
    ELSE Min(self.requested, store.N)

\* C1: after construction and any sequence of get calls, length() is 1 if data_idx is
\* configured, otherwise min(requested num_data_sets, number of samples of Store A's imgs),
\* or that number when no count was requested; and no step changes length() once the
\* provider is constructed.
C1_Length ==
    [][/\ pc' = "ready" => __len__(self') = ExpectedLength'
       /\ pc = "ready" => __len__(self') = __len__(self)]_vars

\* C1 witness: a get has returned on a provider whose requested count exceeds the store's
C1_Witness ==
    /\ Returned
    /\ self.data_idx = None /\ self.requested # None /\ self.requested > store.N
    /\ __len__(self) = store.N

\* C2: with data_idx configured, every get loads the sample stored at data_idx whatever
\* index is passed (inside or outside [0, length)): the index returned is data_idx, the
\* arrays read are those of sample data_idx, and they are the ones an earlier get with
\* another passed index read.
C2_FixedIndex ==
    (Called /\ self.data_idx # None) =>
        /\ last.idx = self.data_idx
        /\ Returned =>
             /\ Uncast(last.data["imgs"].val) = Stored("imgs", self.data_idx)
             /\ Uncast(last.data["loss_masks"].val) = Stored("loss_masks", self.data_idx)
             /\ Mentions(last.data["maps"].val, "stored", "maps")
             /\ Uncast(last.rawMasks.val).n = self.data_idx
             /\ first.idx = self.data_idx
             /\ \A k \in {"imgs", "maps", "masks", "loss_masks"} : last.data[k] = first.data[k]

\* C2 witness: two gets with different passed indices, the later one outside [0, length)
C2_Witness ==
    /\ Returned /\ self.data_idx # None
    /\ last.passed # first.passed
    /\ last.passed # self.data_idx
    /\ last.passed >= __len__(self)

\* C3 as stated: a provider with noncart and inverse_crime both set is never constructed,
\* and no get on such a configuration invokes the Forward Operator or returns a sample.
C3_Original ==
    /\ pc = "ready" => ~(self.noncart /\ self.inverse_crime)
    /\ (Called /\ self.noncart /\ self.inverse_crime) =>
         (last.status = "error" /\ ~last.simCalled)

\* C3 amended: construction with both flags set succeeds; every get on such a provider
\* raises before the Forward Operator is invoked and returns no sample, and the error is
\* the unsupported-mode assertion whenever the reader succeeded and scale_data is off.
C3_GetRejected ==
    (Called /\ self.noncart /\ self.inverse_crime) =>
        /\ last.status = "error"
        /\ ~last.simCalled
        /\ last.data = NoData
        /\ last.reader = "load_data"
        /\ last.err \in {"IndexError", "KeyError", "AssertionError: SEE FIXME",
                         "AssertionError: FIXME: forward sim of NUFFT"}
        /\ (last.idx \in 0..(store.N - 1) /\ store.maskMode \in {"masks", "both"}
              /\ ~self.scale_data)
             => last.err = "AssertionError: FIXME: forward sim of NUFFT"

\* C3 witness: a get on a constructed provider with both flags failed on the assertion
C3_Witness ==
    /\ Called /\ self.noncart /\ self.inverse_crime
    /\ last.err = "AssertionError: FIXME: forward sim of NUFFT"

\* C4: every sample get returns has exactly the fields imgs, maps, masks, loss_masks, out;
\* imgs, maps and out are complex64 and masks and loss_masks are float32, whatever the
\* stored dtypes and the mode flags.
C4_Dtypes ==
    Returned =>
        /\ DOMAIN last.data = {"imgs", "maps", "masks", "loss_masks", "out"}
        /\ \A k \in {"imgs", "maps", "out"} : last.data[k].dtype = "c64"
        /\ \A k \in {"masks", "loss_masks"} : last.data[k].dtype = "f32"

\* C4 witness: a returned sample whose arrays were computed in double precision from
\* datasets stored in double precision, at a valid index
C4_Witness ==
    /\ Returned
    /\ last.passed \in 0..(__len__(self) - 1)
    /\ StoredDtype(store, "imgs") = "c128"
    /\ last.loaded["out"].dtype = "c128"
    /\ last.loaded["masks"].dtype = "f64"

\* whether a term is np.ones(...) up to dtype conversion
AllOnes(t) == Uncast(t).op = "ones"

\* C5: with fully_sampled set, the returned masks is all ones, has the shape of the masks
\* the same get returns with fully_sampled off (the stored per-sample mask shape when
\* that slice has rank 2), and the Forward Operator is run with the all-ones mask and
\* not the stored one.
C5_FullySampled ==
    (Returned /\ self.fully_sampled) =>
        LET other == __getitem__([self EXCEPT !.fully_sampled = FALSE], store,
                                 last.passed, 1, FALSE)
        IN /\ AllOnes(last.data["masks"].val)
           /\ other.status = "ok"
           /\ ~AllOnes(other.data["masks"].val)
           /\ last.data["masks"].shape = other.data["masks"].shape
           /\ Len(PerSample(store.layout, last.maskSource)) = 2
                => last.data["masks"].shape = PerSample(store.layout, last.maskSource)
           /\ last.simCalled /\ AllOnes(last.simMasks.val)
           /\ last.simMasks.shape = last.rawMasks.shape
           /\ Mentions(last.data["out"].val, "ones", "")
           /\ ~Mentions(last.data["out"].val, "stored", "masks")
           /\ ~Mentions(last.data["out"].val, "stored", "mask_traj")

\* C5 witness: a fully sampled get returned a sample from a store with the usual layout
C5_Witness ==
    /\ Returned /\ self.fully_sampled
    /\ store.layout = "std"
    /\ last.data["masks"].shape = PerSample("std", "masks")
    /\ Uncast(last.rawMasks.val) = Stored("masks", last.idx)

\* C6: a returned sample is squeezed exactly when the leading dimension of the loaded imgs
\* is 1, and then all five arrays lose their leading dimension (of size 1) together; for
\* a store whose per-sample slice of masks has rank 2, imgs, maps, masks and loss_masks
\* are returned with one dimension fewer than their stored datasets.
C6_Squeeze ==
    Returned =>
        /\ last.squeezed = (last.loaded["imgs"].shape[1] = 1)
        /\ \A k \in Fields :
             IF last.squeezed
             THEN last.loaded[k].shape[1] = 1 /\ last.data[k].shape = Tail(last.loaded[k].shape)
             ELSE last.data[k].shape = last.loaded[k].shape
        /\ (last.maskSource = "masks" /\ Len(PerSample(store.layout, "masks")) = 2) =>
             /\ last.squeezed
             /\ \A k \in {"imgs", "maps", "masks", "loss_masks"} :
                  Rank(last.data[k]) = Len(DatasetShape(store, k)) - 1

\* C6 witness: a squeezed sample from a store whose per-sample mask slice has rank 2
C6_Witness ==
    /\ Returned /\ last.squeezed
    /\ last.maskSource = "masks" /\ Len(PerSample(store.layout, "masks")) = 2
    /\ Rank(last.data["out"]) = Rank(last.loaded["out"]) - 1

StoreAReadable ==
    /\ last.idx \in 0..(store.N - 1)
    /\ self.inverse_crime \/ store.hasKsp

\* C8 as stated: with masks absent from Store B the mask is read from mask_traj_<idx>
\* instead of failing, in either reader mode; the shared masks is used when present.
C8_Original ==
    (Called /\ StoreAReadable) =>
        /\ store.maskMode = "traj" =>
             (last.maskSource = "mask_traj" /\ last.err # "KeyError")
        /\ store.maskMode \in {"masks", "both"} => last.maskSource = "masks"

\* C8 amended: with masks absent from Store B, the k-space reader (inverse_crime off)
\* reads the mask from mask_traj_<idx> instead of failing, and the image-domain reader
\* (inverse_crime on) fails with a missing-dataset error; the shared masks is used
\* whenever it is present.
C8_Fallback ==
    (Called /\ StoreAReadable) =>
        /\ (store.maskMode = "traj" /\ ~self.inverse_crime) =>
             /\ last.maskSource = "mask_traj"
             /\ last.err # "KeyError"
             /\ Uncast(last.rawMasks.val) = Stored("mask_traj", last.idx)
        /\ (store.maskMode \in {"traj", "none"} /\ self.inverse_crime) =>
             (last.status = "error" /\ last.err = "KeyError" /\ last.maskSource = "none")
        /\ (store.maskMode = "none" /\ ~self.inverse_crime) =>
             (last.status = "error" /\ last.err = "KeyError")
        /\ store.maskMode \in {"masks", "both"} =>
             (last.maskSource = "masks"
              /\ Uncast(last.rawMasks.val) = Stored("masks", last.idx))

\* C8 witness: a get of the last index of a store without masks returned a sample whose
\* mask came from mask_traj_<idx>
C8_Witness ==
    /\ Returned /\ store.maskMode = "traj" /\ ~self.inverse_crime
    /\ store.N = MaxN /\ last.idx = MaxN - 1
    /\ last.maskSource = "mask_traj"

\* the noise arrays a get of last.idx can use: the stored noise as the reader casts it,
\* or a fresh draw
NoiseVals(dt) ==
    IF store.noise # "absent" THEN {ReadSample(store, "noise", last.idx, dt).val}
    ELSE {Randn(<<>>, d).val : d \in 1..NoiseDraws}

Scaled(n) == T("scale_invsqrt2", "", self.stdev, <<n>>)
Plus(a, b) == T("add", "", 0, <<a, b>>)
Times(a, b) == T("mul", "", 0, <<a, b>>)

\* C9: the reader and the forward formula are selected by inverse_crime alone.  With
\* inverse_crime the image-domain reader is used, ksp is never read (the outcome is the
\* same with and without ksp in Store A) and the simulated measurement is
\* mask * (FFT(img * maps) + noise_scale * noise); without it the k-space reader is used,
\* a missing ksp fails the get, and for Cartesian acquisition the simulated measurement is
\* mask * (ksp + noise_scale * noise), which does not involve imgs.
C9_ModeSelect ==
    Called =>
        /\ last.reader = (IF self.inverse_crime THEN "load_data" ELSE "load_data_ksp")
        /\ self.inverse_crime =>
             /\ ~last.readKsp
             /\ LET other == __getitem__(self, [store EXCEPT !.hasKsp = ~store.hasKsp],
                                         last.passed, 1, FALSE)
                IN other.status = last.status /\ other.err = last.err
             /\ Returned =>
                  \E n \in NoiseVals("c64") :
                      last.pre.val =
                          Times(last.simMasks.val,
                                Plus(T("fft2uc", "", 0,
                                       <<Times(last.loaded["imgs"].val, last.simMaps.val)>>),
                                     Scaled(n)))
        /\ ~self.inverse_crime =>
             /\ (~store.hasKsp /\ last.idx \in 0..(store.N - 1)) =>
                  (last.status = "error" /\ last.err = "KeyError")
             /\ Returned => last.readKsp
             /\ (Returned /\ ~self.noncart) =>
                  /\ \E n \in NoiseVals("f32") :
                         last.pre.val =
                             Times(last.simMasks.val,
                                   Plus(ReadSample(store, "ksp", last.idx, "c64").val, Scaled(n)))
                  /\ ~Mentions(last.pre.val, "stored", "imgs")

\* C9 witness: an inverse-crime get returned a sample from a Store A without ksp
C9_Witness ==
    /\ Returned /\ self.inverse_crime /\ ~store.hasKsp
    /\ Mentions(last.pre.val, "stored", "imgs")
    /\ Mentions(last.pre.val, "fft2uc", "")

\* C10: in non-Cartesian mode the returned out is op(ifft(ksp)) + (stdev / sqrt(2)) * noise
\* with the stored noise, or generated noise when there is none; for stdev > 0 the
\* output depends on the noise.
C10_NoiseAdded ==
    (Returned /\ self.noncart /\ self.stdev > 0) =>
        /\ \E n \in NoiseVals("f32") :
               Uncast(last.data["out"].val) =
                   Plus(T("nufft_op", "", 0,
                          <<T("ifft2uc", "", 0, <<ReadSample(store, "ksp", last.idx, "c64").val>>),
                            last.simMasks.val>>),
                        Scaled(n))
        /\ Mentions(last.data["out"].val, "scale_invsqrt2", "")

\* the maps of sample last.idx as both readers return them
StoredMaps == ReadSample(store, "maps", last.idx, "c64").val

\* C11 as stated: unless non-Cartesian the maps are modulated before the simulation, so
\* the Forward Operator uses the modulated maps and the maps returned are the ones it used.
C11_Original ==
    (Returned /\ ~self.noncart) =>
        /\ last.simMaps.val = T("fftmod", "", 0, <<StoredMaps>>)
        /\ last.loaded["maps"] = last.simMaps

\* C11 amended: unless non-Cartesian the maps returned in the sample are the
\* frequency-shift modulation of the stored maps, applied after the simulation step: the
\* Forward Operator multiplies the image with, and conjugates for coil combination, the
\* unmodulated stored maps, and the returned maps are the modulation of the maps it used.
\* In non-Cartesian mode the maps are returned as stored.
C11_MapsAfterSim ==
    Returned =>
        /\ last.simMaps.val = StoredMaps
        /\ ~Mentions(last.simMaps.val, "fftmod", "")
        /\ last.loaded["maps"].val =
             (IF self.noncart THEN StoredMaps ELSE T("fftmod", "", 0, <<StoredMaps>>))
        /\ last.loaded["maps"].shape = last.simMaps.shape
        /\ (~self.noncart /\ self.inverse_crime) =>
             Uncast(last.pre.val.args[2].args[1]) =
                 T("fft2uc", "", 0, <<Times(last.loaded["imgs"].val, StoredMaps)>>)
        /\ (~self.noncart /\ self.adjoint_data) =>
             last.loaded["out"].val.args[1].args[1] = T("conj", "", 0, <<StoredMaps>>)

\* C11 witness: an inverse-crime adjoint get returned modulated maps
C11_Witness ==
    /\ Returned /\ ~self.noncart /\ self.inverse_crime /\ self.adjoint_data
    /\ Mentions(last.data["maps"].val, "fftmod", "")
    /\ ~Mentions(last.data["out"].val, "fftmod", "")

\* a shape without its axis 1 (numpy numbering), the channel axis of [N, C, Nx, Ny]
DropAxis1(shape) == <<shape[1]>> \o Tail(Tail(shape))

\* C12: the output transform is chosen by (adjoint_data, noncart).  Cartesian without
\* adjoint_data: out is the modulation of the simulated measurement, with its channel
\* axis.  Cartesian with adjoint_data: out is the sum over the channel axis of conjugate
\* maps times the inverse FFT of the simulated measurement, without the channel axis.
\* Non-Cartesian: out is the simulated measurement itself, whatever adjoint_data is.
C12_OutputTransform ==
    Returned =>
        /\ (~self.noncart /\ ~self.adjoint_data) =>
             /\ last.loaded["out"].val = T("fftmod", "", 0, <<last.pre.val>>)
             /\ last.loaded["out"].shape = last.pre.shape
             /\ last.pre.shape[2] = last.simMaps.shape[2]
        /\ (~self.noncart /\ self.adjoint_data) =>
             /\ last.loaded["out"].val =
                  T("sum_axis1", "", 0,
                    <<Times(T("conj", "", 0, <<last.simMaps.val>>),
                            T("ifft2uc", "", 0, <<last.pre.val>>))>>)
             /\ last.loaded["out"].shape = DropAxis1(last.pre.shape)
             /\ Rank(last.loaded["out"]) = Rank(last.pre) - 1
        /\ self.noncart => last.loaded["out"] = last.pre
        /\ last.data["out"].val = AsType(last.loaded["out"], "c64").val

\* C12 witness: a Cartesian adjoint get returned a single-channel image
C12_Witness ==
    /\ Returned /\ ~self.noncart /\ self.adjoint_data
    /\ store.layout = "std"
    /\ last.pre.shape = <<1>> \o PerSample("std", "maps")
    /\ last.data["out"].shape = PerSample("std", "imgs")

\* whether term t is computed with the percentile scaling of lines 123-125
MentionsScaling(t) == Mentions(t, "percentile99", "") \/ Mentions(t, "div", "")

\* C13: data scaling is gated off.  With scale_data set every get fails, for every index
\* and every store size, without the Forward Operator being invoked and without a sample;
\* whenever the reader succeeded the failure is the assertion "SEE FIXME" (also when the
\* non-Cartesian inverse-crime assertion would fail too), otherwise it is the reader's
\* error.  No array of any outcome is computed from a percentile or a division.  With
\* scale_data off, the imgs returned are the stored ones and the Cartesian k-space
\* measurement is computed from the stored ksp itself.
C13_ScalingGated ==
    Called =>
        /\ self.scale_data =>
             /\ last.status = "error"
             /\ ~last.simCalled
             /\ last.loaded = NoData /\ last.data = NoData
             /\ IsNone(last.pre)
             /\ ~IsNone(last.rawMasks) => last.err = "AssertionError: SEE FIXME"
             /\ IsNone(last.rawMasks) => last.err \in {"IndexError", "KeyError"}
        /\ \A k \in Fields : ~MentionsScaling(last.loaded[k].val) /\ ~MentionsScaling(last.data[k].val)
        /\ ~MentionsScaling(last.pre.val)
        /\ (Returned /\ ~self.scale_data) =>
             /\ Uncast(last.loaded["imgs"].val) = Stored("imgs", last.idx)
             /\ (~self.inverse_crime /\ ~self.noncart) =>
                  Uncast(last.pre.val.args[2].args[1]) = Stored("ksp", last.idx)

\* C13 witness: a get on a single-sample store failed on the scaling assertion in a
\* configuration that is otherwise served
C13_Witness ==
    /\ Called /\ self.scale_data /\ ~self.noncart
    /\ store.N = 1 /\ store.layout = "std" /\ last.idx = 0
    /\ last.err = "AssertionError: SEE FIXME"
    /\ ~IsNone(last.rawMasks)

====
